---- MODULE Spec2Model ----
(***************************************************************************)
(* Configuration reconciliation and safe persistence of my_plugin:         *)
(* BlossomSerializable._fix_data, ConfigurationBase.load / save, the       *)
(* file_util helpers and ConfigSerializeLogger.                            *)
(***************************************************************************)
EXTENDS Integers, Sequences, FiniteSets, TLC

(***************************************************************************)
(* Python values.  Every value is a record of one shape:                   *)
(*   t : the Python type ("none", "int", "str", "list", "map", "obj")      *)
(*   n : the integer of an int                                             *)
(*   s : the text of a str, the class name of an obj                       *)
(*   m : the items of a dict / the attributes of an obj (key -> value)     *)
(*   l : the elements of a list                                            *)
(***************************************************************************)
EmptyMap == [k \in {} |-> 0]

NoneV == [t |-> "none", n |-> 0, s |-> "", m |-> EmptyMap, l |-> <<>>]

IntV(i) == [t |-> "int", n |-> i, s |-> "", m |-> EmptyMap, l |-> <<>>]

StrV(str) == [t |-> "str", n |-> 0, s |-> str, m |-> EmptyMap, l |-> <<>>]

ListV(elems) == [t |-> "list", n |-> 0, s |-> "", m |-> EmptyMap, l |-> elems]

MapV(items) == [t |-> "map", n |-> 0, s |-> "", m |-> items, l |-> <<>>]

ObjV(cls, attrs) == [t |-> "obj", n |-> 0, s |-> cls, m |-> attrs, l |-> <<>>]

\* A raised TypeError / ValueError, as the result of an operator that may raise.
Err == [t |-> "error", n |-> 0, s |-> "", m |-> EmptyMap, l |-> <<>>]

\* items restricted to the keys of ks
Restrict(items, ks) == [k \in ks |-> items[k]]

\* items with key k set to v (dict.__setitem__)
SetItem(items, k, v) == [j \in (DOMAIN items) \cup {k} |-> IF j = k THEN v ELSE items[j]]

\* dict.update / the overlay loop "for key, value in b.items(): a[key] = value"
Overlay(a, b) == [j \in (DOMAIN a) \cup (DOMAIN b) |-> IF j \in DOMAIN b THEN b[j] ELSE a[j]]

(***************************************************************************)
(* Text conversions of the Python builtins.                                *)
(***************************************************************************)
Digits == <<"0", "1", "2", "3", "4", "5", "6", "7", "8", "9">>

RECURSIVE IntToStr(_)
IntToStr(i) == IF i < 10 THEN Digits[i + 1] ELSE IntToStr(i \div 10) \o Digits[(i % 10) + 1]

\* the strings of the model that int() accepts, with their values
NumericStrings == {IntToStr(i) : i \in 0..99}

ParseInt(str) == CHOOSE i \in 0..99 : IntToStr(i) = str

RECURSIVE JoinFrom(_, _, _)
JoinFrom(parts, sep, i) ==
    IF i > Len(parts) THEN ""
    ELSE IF i = Len(parts) THEN parts[i]
    ELSE parts[i] \o sep \o JoinFrom(parts, sep, i + 1)

\* sep.join(parts)
Join(parts, sep) == JoinFrom(parts, sep, 1)

(***************************************************************************)
(* The configuration schema.  A type descriptor is                         *)
(*   [k |-> "int"]  [k |-> "str"]            primitive types               *)
(*   [k |-> "list", elem |-> e]              typing.List[e]                *)
(*   [k |-> "class", cls |-> c]              a BlossomSerializable class   *)
(* The classes are the plugin's Configuration and two nested schemas.      *)
(***************************************************************************)
TInt == [k |-> "int", cls |-> "", elem |-> ""]

TStr == [k |-> "str", cls |-> "", elem |-> ""]

TList(e) == [k |-> "list", cls |-> "", elem |-> e]

TClass(c) == [k |-> "class", cls |-> c, elem |-> ""]

\* the element type of typing.List[e]: int, or a schema class
ElemType(ty) == IF ty.elem = "int" THEN TInt ELSE TClass(ty.elem)

Field(key, ty) == [key |-> key, ty |-> ty]

\* cls.get_field_annotations(): the public annotated fields, in declaration order
Annotations(cls) ==
    CASE cls = "Configuration" ->
            << Field("a", TInt), Field("b", TStr), Field("c", TInt),
               Field("sub", TClass("Sub")), Field("l", TList("int")),
               Field("subs", TList("Sub")) >>
      [] cls = "Sub" -> << Field("x", TInt), Field("d", TClass("Deep")) >>
      [] cls = "Deep" -> << Field("z", TInt) >>

FieldKeys(cls) == {Annotations(cls)[i].key : i \in 1..Len(Annotations(cls))}

FieldType(cls, key) ==
    LET i == CHOOSE j \in 1..Len(Annotations(cls)) : Annotations(cls)[j].key = key
    IN Annotations(cls)[i].ty

DeepDefault == ObjV("Deep", "z" :> IntV(1))

SubDefault == ObjV("Sub", "x" :> IntV(0) @@ "d" :> DeepDefault)

\* The class attributes that give fields their defaults.  Field c of
\* Configuration is annotated without a default.
ClassAttrs(cls) ==
    CASE cls = "Configuration" ->
            "a" :> IntV(5) @@ "b" :> StrV("x") @@ "sub" :> SubDefault
            @@ "l" :> ListV(<<IntV(1)>>) @@ "subs" :> ListV(<<>>)
      [] cls = "Sub" -> "x" :> IntV(0) @@ "d" :> DeepDefault
      [] cls = "Deep" -> "z" :> IntV(1)

(***************************************************************************)
(* mcdreforged.api.utils: deserialize, serialize, Serializable.get_default *)
(***************************************************************************)
RECURSIVE deserialize(_, _, _)
\* deserialize(data, cls, error_at_redundancy=strict): the typed value, or
\* Err for the TypeError / ValueError it raises.
deserialize(data, ty, strict) ==
    CASE ty.k = "int" -> IF data.t = "int" THEN data ELSE Err
      [] ty.k = "str" -> IF data.t = "str" THEN data ELSE Err
      [] ty.k = "list" ->
            IF data.t # "list" THEN Err
            ELSE LET elems == [i \in 1..Len(data.l) |->
                                  deserialize(data.l[i], ElemType(ty), strict)]
                 IN IF \E i \in 1..Len(data.l) : elems[i] = Err THEN Err
                    ELSE ListV(elems)
      [] ty.k = "class" ->
            IF data.t # "map" THEN Err
            ELSE LET given == FieldKeys(ty.cls) \cap DOMAIN data.m
                     attrs == [key \in given |->
                                  deserialize(data.m[key], FieldType(ty.cls, key), strict)]
                     dflt == (DOMAIN ClassAttrs(ty.cls)) \ given
                 IN IF \E key \in given : attrs[key] = Err THEN Err
                    ELSE IF strict /\ (DOMAIN data.m) \ FieldKeys(ty.cls) # {} THEN Err
                    ELSE ObjV(ty.cls, attrs @@ Restrict(ClassAttrs(ty.cls), dflt))

RECURSIVE serialize(_)
\* serialize(obj): objects become mappings of their public attributes
serialize(v) ==
    CASE v.t = "obj" -> MapV([key \in DOMAIN v.m |-> serialize(v.m[key])])
      [] v.t = "map" -> MapV([key \in DOMAIN v.m |-> serialize(v.m[key])])
      [] v.t = "list" -> ListV([i \in 1..Len(v.l) |-> serialize(v.l[i])])
      [] OTHER -> v

\* cls.get_default(): cls.deserialize({})
get_default(cls) == deserialize(MapV(EmptyMap), TClass(cls), FALSE)

(***************************************************************************)
(* str(value) and the constructor call target_type(value)                  *)
(***************************************************************************)
RECURSIVE PyRepr(_)
RECURSIVE ItemsRepr(_, _)
ItemsRepr(items, keys) ==
    IF keys = {} THEN ""
    ELSE LET key == CHOOSE j \in keys : TRUE
             rest == keys \ {key}
         IN "'" \o key \o "': " \o PyRepr(items[key])
            \o (IF rest = {} THEN "" ELSE ", " \o ItemsRepr(items, rest))

\* repr(value)
PyRepr(v) ==
    CASE v.t = "none" -> "None"
      [] v.t = "int" -> IntToStr(v.n)
      [] v.t = "str" -> "'" \o v.s \o "'"
      [] v.t = "list" -> "[" \o Join([i \in 1..Len(v.l) |-> PyRepr(v.l[i])], ", ") \o "]"
      [] v.t = "map" -> "{" \o ItemsRepr(v.m, DOMAIN v.m) \o "}"
      [] OTHER -> "<" \o v.s \o " object>"

\* str(value)
PyStr(v) == IF v.t = "str" THEN v.s ELSE PyRepr(v)

\* target_type(value): int(value), str(value); a typing.List alias cannot be
\* instantiated and raises TypeError.
Construct(ty, value) ==
    CASE ty.k = "int" ->
            IF value.t = "int" THEN value
            ELSE IF value.t = "str" /\ value.s \in NumericStrings
                 THEN IntV(ParseInt(value.s))
            ELSE Err
      [] ty.k = "str" -> StrV(PyStr(value))
      [] OTHER -> Err

(***************************************************************************)
(* BlossomSerializable._fix_data                                           *)
(* A result is [doc: the items of fixed_dict, log: needs_save,             *)
(* exc: "" or the name of the exception that left the call].               *)
(***************************************************************************)
FixResult(doc, log, exc) == [doc |-> doc, log |-> log, exc |-> exc]

\* fix_missing with the default substituted but its path not recorded
fix_missing_unrecorded(acc, key, node_name, default_data) ==
    IF key \in DOMAIN default_data
    THEN FixResult(SetItem(acc.doc, key, default_data[key]), acc.log, "")
    ELSE acc

\* key absent from data: the default, recorded, when there is one
fix_missing(acc, key, node_name, default_data) ==
    IF key \in DOMAIN default_data
    THEN FixResult(SetItem(acc.doc, key, default_data[key]),
                   Append(acc.log, node_name), "")
    ELSE acc

\* blossom_nodes passing the outer father_nodes on, without the nested key
blossom_nodes_outer(father_nodes, current_nodes) == father_nodes

\* the nested call made by fix_blossom: which father_nodes it passes on
blossom_nodes(father_nodes, current_nodes) == current_nodes

\* fix_blossom's merge of the nested result into the outer one
fix_blossom(acc, key, sub) ==
    IF sub.exc # "" THEN FixResult(acc.doc, acc.log, sub.exc)
    ELSE FixResult(SetItem(acc.doc, key, MapV(sub.doc)), acc.log \o sub.log, "")

\* what replaces a value that deserialize rejected, given a default exists:
\* target_type(value) of the rejected value, else the default
fix_rejected(ty, value, default) ==
    LET made == Construct(ty, value)
    IN IF made # Err THEN made ELSE default

\* fix_plain without the "continue" of a rejected field that has no default:
\* the rejected raw value is kept
fix_plain_kept(acc, key, ty, value, node_name, default_data) ==
    LET des == deserialize(value, ty, TRUE)
    IN IF des # Err THEN FixResult(SetItem(acc.doc, key, des), acc.log, "")
       ELSE IF key \notin DOMAIN default_data
            THEN FixResult(SetItem(acc.doc, key, value), Append(acc.log, node_name), "")
       ELSE FixResult(SetItem(acc.doc, key, fix_rejected(ty, value, default_data[key])),
                      Append(acc.log, node_name), "")

\* a primitive or container field present in data
fix_plain(acc, key, ty, value, node_name, default_data) ==
    LET des == deserialize(value, ty, TRUE)
    IN IF des # Err THEN FixResult(SetItem(acc.doc, key, des), acc.log, "")
       ELSE IF key \notin DOMAIN default_data
            THEN FixResult(acc.doc, Append(acc.log, node_name), "")
       ELSE FixResult(SetItem(acc.doc, key, fix_rejected(ty, value, default_data[key])),
                      Append(acc.log, node_name), "")

RECURSIVE fix_data(_, _, _)
RECURSIVE fix_fields(_, _, _, _, _, _)
\* the loop over annotations.items(), from field i on
fix_fields(cls, data, father_nodes, default_data, i, acc) ==
    IF i > Len(Annotations(cls)) \/ acc.exc # "" THEN acc
    ELSE LET key == Annotations(cls)[i].key
             ty == Annotations(cls)[i].ty
             current_nodes == Append(father_nodes, key)
             node_name == Join(current_nodes, ".")
             next ==
                IF data.t # "map" THEN FixResult(acc.doc, acc.log, "AttributeError")
                ELSE IF key \notin DOMAIN data.m
                     THEN fix_missing(acc, key, node_name, default_data)
                ELSE IF ty.k = "class"
                     THEN fix_blossom(acc, key,
                              fix_data(ty.cls, data.m[key],
                                       blossom_nodes(father_nodes, current_nodes)))
                ELSE fix_plain(acc, key, ty, data.m[key], node_name, default_data)
         IN fix_fields(cls, data, father_nodes, default_data, i + 1, next)

\* cls._fix_data(data, father_nodes=father_nodes)
fix_data(cls, data, father_nodes) ==
    fix_fields(cls, data, father_nodes, serialize(get_default(cls)).m, 1,
               FixResult(EmptyMap, <<>>, ""))

(***************************************************************************)
(* Raw documents: what the YAML parser can hand to _fix_data.              *)
(***************************************************************************)
\* largest integer tried as the raw value of an integer field or list element
MaxInt == 0

\* marks a key that the raw mapping does not hold
AbsentV == [t |-> "absent", n |-> 0, s |-> "", m |-> EmptyMap, l |-> <<>>]

\* the mapping of the keys of f that are not marked absent
MkMap(f) == MapV(Restrict(f, {key \in DOMAIN f : f[key].t # "absent"}))

RawA == {AbsentV, NoneV, StrV("oops"), StrV("12")} \cup {IntV(i) : i \in 0..MaxInt}

RawB == {AbsentV, StrV("oops"), IntV(0)}

RawC == {AbsentV, IntV(1), StrV("12")}

RawDeep == {AbsentV, IntV(0), MkMap("z" :> IntV(1)), MkMap("z" :> StrV("oops"))}

RawSub ==
    {AbsentV, IntV(0), NoneV}
    \cup {MkMap("x" :> x @@ "d" :> d) : x \in {AbsentV, IntV(1), StrV("oops")}, d \in RawDeep}

RawL == {AbsentV, ListV(<<StrV("oops")>>)} \cup {ListV(<<IntV(i)>>) : i \in 0..MaxInt}

RawSubs ==
    {AbsentV, IntV(0), ListV(<<MkMap("x" :> IntV(1))>>),
     ListV(<<MkMap("x" :> StrV("oops"))>>),
     ListV(<<MkMap("x" :> IntV(1) @@ "junk" :> IntV(0))>>)}

\* a key the schema does not know
RawExtra == {AbsentV, IntV(0)}

RawDocs ==
    {NoneV, ListV(<<>>), StrV("oops")}
    \cup {MkMap("a" :> a @@ "b" :> b @@ "c" :> c @@ "sub" :> sub @@ "l" :> l
                @@ "subs" :> subs @@ "zz" :> zz) :
            a \in RawA, b \in RawB, c \in RawC, sub \in RawSub, l \in RawL,
            subs \in RawSubs, zz \in RawExtra}

(***************************************************************************)
(* Files.  A directory entry is absent, a directory, or a file holding a   *)
(* text.  A text is [syntax, doc, style]:                                  *)
(*   syntax  "yaml"     a complete YAML document that parses to doc        *)
(*           "garbage"  a complete text that the YAML parser rejects       *)
(*           "partial"  a file opened for writing and not yet closed       *)
(*   style   whose comments and layout the text carries: "user",           *)
(*           "template", "bare" (an empty CommentedMap) or "safe" (the     *)
(*           plain dump of the safe dumper)                                *)
(* Line endings are not part of a text: lf_read normalises them before     *)
(* the parser sees them and the parsed document does not depend on them.   *)
(***************************************************************************)
Absent == [kind |-> "absent", syntax |-> "", doc |-> NoneV, style |-> ""]

DirEntry == [kind |-> "dir", syntax |-> "", doc |-> NoneV, style |-> ""]

FileEntry(syntax, doc, style) == [kind |-> "file", syntax |-> syntax, doc |-> doc, style |-> style]

\* file_path of the configuration, inside the data folder
FilePath == "config.yml"

\* config_temp_path: temp_<basename> beside file_path
TempPath == "temp_" \o FilePath

\* safe_write writing its target in place, without a temporary file
WriteTmp_InPlace(target) == target

\* temp_file_path of safe_write
WriteTmp(target) == target \o ".tmp"

Paths == {FilePath, TempPath, WriteTmp(FilePath), WriteTmp(TempPath)}

\* file_util.delete leaving whatever it finds in place
delete_nothing(files, path) == files

\* file_util.delete: removes a file or a directory tree, ignores a missing path
delete(files, path) == [files EXCEPT ![path] = Absent]

\* os.replace(src, dst)
replace(files, src, dst) ==
    [path \in DOMAIN files |->
        IF path = dst THEN files[src] ELSE IF path = src THEN Absent ELSE files[path]]

\* the exception of file_util.lf_read followed by YAML.load, "" for none
read_error(files, path) ==
    IF files[path].kind = "absent" THEN "FileNotFoundError"
    ELSE IF files[path].kind = "dir" THEN "IsADirectoryError"
    ELSE IF files[path].syntax # "yaml" THEN "YAMLError"
    ELSE ""

\* file_util.lf_read followed by YAML.load: the parsed document, or Err when
\* the path is no file or its text does not parse
read_yaml(files, path) ==
    IF files[path].kind = "file" /\ files[path].syntax = "yaml" THEN files[path].doc ELSE Err

(***************************************************************************)
(* ConfigSerializeLogger.  verbose and cached_verbose hold "True", "False" *)
(* or "None"; src holds "None" or the name of a command source.            *)
(* Lg pairs the logger with what left it: console (the lines handed to the *)
(* module logger), replies (the lines sent to a command source) and        *)
(* warned (the messages passed to ConfigSerializeLogger.warn).             *)
(***************************************************************************)
NewLogger ==
    [verbose |-> "True", src |-> "None", cached_verbose |-> "None",
     log_record |-> <<>>, recording |-> FALSE]

NoOutput == [console |-> <<>>, replies |-> <<>>, warned |-> <<>>]

Lg(lgr, output) == [logger |-> lgr, out |-> output]

\* ConfigSerializeLogger.log
log(L, level, msg) ==
    Lg([L.logger EXCEPT !.log_record = IF L.logger.recording THEN Append(@, msg) ELSE @],
       [L.out EXCEPT
           !.replies = IF L.logger.src # "None" THEN Append(@, <<L.logger.src, msg>>) ELSE @,
           !.console = IF L.logger.verbose = "True" THEN Append(@, <<level, msg>>) ELSE @])

info(L, msg) == log(L, "info", msg)

warn(L, msg) ==
    LET done == log(L, "warning", msg)
    IN Lg(done.logger, [done.out EXCEPT !.warned = Append(@, msg)])

RECURSIVE warn_all(_, _, _)
\* warn called with each message of msgs, from the i-th on
warn_all(L, msgs, i) == IF i > Len(msgs) THEN L ELSE warn_all(warn(L, msgs[i]), msgs, i + 1)

\* entering reply_to_source_context
enter_reply(lgr, verbose, source) ==
    [lgr EXCEPT !.cached_verbose = lgr.verbose, !.verbose = verbose, !.src = source]

\* the finally block of reply_to_source_context
exit_reply(lgr) ==
    [lgr EXCEPT !.verbose = lgr.cached_verbose, !.src = "None", !.cached_verbose = "None"]

\* entering record_context
enter_record(lgr, verbose, source) ==
    enter_reply([lgr EXCEPT !.log_record = <<>>, !.recording = TRUE], verbose, source)

\* leaving record_context: the inner context's finally, then its own
exit_record(lgr) == [exit_reply(lgr) EXCEPT !.recording = FALSE]

\* the warning of the module logger in get_template
TemplateWarning == <<"warning", "Template not found, is plugin modified?">>

\* What open_bundled_file can find at the bundled template path.
Templates ==
    {Absent,
     FileEntry("yaml", serialize(get_default("Configuration")), "template"),
     FileEntry("yaml",
               MapV(serialize(get_default("Configuration")).m @@ "c" :> StrV("oops")),
               "template")}

\* get_template: the parsed template, or an empty CommentedMap
get_template(tmpl) ==
    IF tmpl.kind = "file" /\ tmpl.syntax = "yaml"
    THEN [doc |-> tmpl.doc, style |-> tmpl.style]
    ELSE [doc |-> MapV(EmptyMap), style |-> "bare"]

\* the messages of the warnings of ConfigurationBase
ReadFailed == "Fail to read config file, using default config"

FixedKeys == "Fixed invalid config keys with default values, please confirm these values: "

ValidationFailed == "Attempting saving config with original file format due to validation failure while attempting saving config and keep local config file format"

ContactMaintainer == "There may be mistakes in original config file format, please contact plugin maintainer"

SavedWithoutFormat == "Validation during config file saving failed, saved without original format"

\* the warnings of _save(safe_dump=True), none
safe_dump_warnings_none == <<>>

\* the warnings of _save(safe_dump=True) after the dump
safe_dump_warnings == <<SavedWithoutFormat>>

\* the warnings of _save when the validation of the temporary file fails
validation_warnings == <<ValidationFailed, ContactMaintainer>>

\* _save leaving a file found at config_temp_path alone
clear_temp_skipped(files) == files

\* _save: a file found at config_temp_path is deleted
clear_temp(files) == IF files[TempPath].kind # "absent" THEN delete(files, TempPath) ELSE files

(***************************************************************************)
(* The files the configuration path can hold before the plugin loads.      *)
(***************************************************************************)
FileDocs ==
    {MkMap("a" :> a @@ "b" :> StrV("y") @@ "c" :> c @@ "sub" :> sub
           @@ "l" :> ListV(<<IntV(1)>>) @@ "subs" :> subs @@ "zz" :> zz) :
        a \in {AbsentV, IntV(1), StrV("12"), StrV("oops")},
        c \in {AbsentV, IntV(1), StrV("oops")},
        sub \in {AbsentV, IntV(0), MkMap("x" :> StrV("oops")),
                 MkMap("x" :> IntV(1) @@ "d" :> MkMap("z" :> IntV(1)))},
        subs \in {ListV(<<>>), ListV(<<MkMap("x" :> IntV(1))>>)},
        zz \in RawExtra}

InitialFiles ==
    {Absent, DirEntry, FileEntry("garbage", NoneV, "user"),
     FileEntry("yaml", NoneV, "user"), FileEntry("yaml", ListV(<<>>), "user")}
    \cup {FileEntry("yaml", doc, "user") : doc \in FileDocs}

\* the print_to_console and source_to_reply arguments of load and save
Options == [verbose : {"True", "False"}, source : {"None", "player"}]

\* how many calls of load and save are followed
MaxOps == 2

(***************************************************************************)
(* State                                                                   *)
(***************************************************************************)
VARIABLES
    raw,        \* the raw document handed to _fix_data
    fixed,      \* the result of _fix_data(raw)
    refixed,    \* the result of _fix_data on the document of fixed
    fpc,        \* "start", "fixed", "refixed"; "off" under Spec
    fs,         \* the directory entries at Paths
    pc,         \* where load / save stand; "idle" between calls, "raised"
                \* once an exception has left the call
    ops,        \* the calls of load and save begun so far
    caller,     \* who called save: "load", or "api" for a call of its own
    opts,       \* print_to_console and source_to_reply of the running call
    exc,        \* the exception that left the call, "" for none
    ld,         \* the locals of load: read_data, the exception caught while
                \* reading (read_exc, "" for none), result_config, needs_save
    config,     \* the instance the last load returned, NoneV before
    sv,         \* save: self, safe_dump, config_content, the text being
                \* written (to_write) and the target of safe_write
    logger,     \* the ConfigSerializeLogger of the instance
    out,        \* what the loggers emitted during the running call
    plug,       \* the plugin module: its phase ("off" when only the configuration
                \* is followed, else "unloaded", "importing", "replaying",
                \* "loaded", "failed"), whether a previous module exists (prev),
                \* the reloader field of the previous module's config
                \* (prev_reloader), the local reload_source of on_load, the
                \* replies of reload_reply (delivered), and who ran the reload
                \* subcommand (trigger)
    hist        \* about the running save: the entry at file_path when it
                \* began (old_file), the warnings issued before it (warned0),
                \* how often it validated and safe-dumped, whether the
                \* validation failed, and whether the template was missing;
                \* verbose0 is the verbosity of the logger when the running
                \* call of load or save began

fixvars == <<raw, fixed, refixed, fpc>>

iovars == <<fs, pc, ops, caller, opts, exc, ld, config, sv, logger, out, hist>>

vars == <<raw, fixed, refixed, fpc, fs, pc, ops, caller, opts, exc, ld, config, sv,
          logger, out, hist, plug>>

NoResult == FixResult(EmptyMap, <<>>, "not called")

NoLoad ==
    [read_data |-> NoneV, read_exc |-> "", result_config |-> NoneV, needs_save |-> FALSE]

NoSave ==
    [self |-> NoneV, safe_dump |-> FALSE, config_content |-> NoneV,
     to_write |-> Absent, target |-> ""]

NoHist ==
    [old_file |-> Absent, warned0 |-> 0, validations |-> 0, safe_dumps |-> 0,
     failed |-> FALSE, template_missing |-> FALSE, verbose0 |-> "True"]

NoPlug ==
    [phase |-> "off", prev |-> FALSE, prev_reloader |-> "None", reload_source |-> "None",
     delivered |-> <<>>, trigger |-> "None"]

\* what an earlier run that was killed can have left at config_temp_path
StaleTemps == {Absent, FileEntry("yaml", MapV(EmptyMap), "user")}

\* before the plugin loads: no instance, and no file at the temporary paths
\* except for what an earlier run left
InitIO ==
    /\ \E entry \in InitialFiles, stale \in StaleTemps :
          fs = [path \in Paths |->
                   IF path = FilePath THEN entry
                   ELSE IF path = TempPath THEN stale ELSE Absent]
    /\ pc = "idle"
    /\ ops = 0
    /\ caller = ""
    /\ opts = [verbose |-> "True", source |-> "None"]
    /\ exc = ""
    /\ ld = NoLoad
    /\ config = NoneV
    /\ sv = NoSave
    /\ logger = NewLogger
    /\ out = NoOutput
    /\ hist = NoHist

(***************************************************************************)
(* SpecFix: _fix_data applied to a raw document, and again to its result.  *)
(***************************************************************************)
InitFix ==
    /\ raw \in RawDocs
    /\ fixed = NoResult
    /\ refixed = NoResult
    /\ fpc = "start"
    /\ fs = [path \in Paths |-> Absent]
    /\ pc = "idle"
    /\ ops = 0
    /\ caller = ""
    /\ opts = [verbose |-> "True", source |-> "None"]
    /\ exc = ""
    /\ ld = NoLoad
    /\ config = NoneV
    /\ sv = NoSave
    /\ logger = NewLogger
    /\ out = NoOutput
    /\ hist = NoHist
    /\ plug = NoPlug

\* Configuration._fix_data(raw)
Fix ==
    /\ fpc = "start"
    /\ fixed' = fix_data("Configuration", raw, <<>>)
    /\ fpc' = "fixed"
    /\ UNCHANGED <<raw, refixed>>
    /\ UNCHANGED iovars
    /\ UNCHANGED plug

\* Configuration._fix_data(document returned by the first call)
Refix ==
    /\ fpc = "fixed"
    /\ fixed.exc = ""
    /\ refixed' = fix_data("Configuration", MapV(fixed.doc), <<>>)
    /\ fpc' = "refixed"
    /\ UNCHANGED <<raw, fixed>>
    /\ UNCHANGED iovars
    /\ UNCHANGED plug

NextFix == Fix \/ Refix

SpecFix == InitFix /\ [][NextFix]_vars

(***************************************************************************)
(* Spec: ConfigurationBase.load and ConfigurationBase.save, step by step.  *)
(* A process kill stops the program where it stands and leaves fs as it    *)
(* is, so what holds of fs in every state holds after a kill at any step.  *)
(***************************************************************************)
Init ==
    /\ raw = NoneV
    /\ fixed = NoResult
    /\ refixed = NoResult
    /\ fpc = "off"
    /\ InitIO
    /\ plug = NoPlug

\* the finally blocks run by an exception leaving load or save
Unwind(lgr) ==
    IF caller = "load"
    THEN exit_record(IF pc \in {"load_read", "load_fix", "load_deser"} THEN lgr
                     ELSE IF sv.safe_dump THEN exit_reply(exit_reply(lgr))
                     ELSE exit_reply(lgr))
    ELSE IF sv.safe_dump THEN exit_reply(exit_reply(lgr)) ELSE exit_reply(lgr)

\* load(print_to_console, source_to_reply): lines 133-138
CallLoad(o) ==
    /\ pc = "idle"
    /\ ops < MaxOps
    /\ ops' = ops + 1
    /\ caller' = "load"
    /\ opts' = o
    /\ logger' = enter_record(NewLogger, o.verbose, o.source)
    /\ out' = NoOutput
    /\ ld' = NoLoad
    /\ sv' = NoSave
    /\ hist' = [NoHist EXCEPT !.verbose0 = NewLogger.verbose]
    /\ exc' = ""
    /\ pc' = "load_read"
    /\ UNCHANGED <<fs, config>>
    /\ UNCHANGED fixvars

\* a call of load while only the configuration is followed
Load(o) == CallLoad(o) /\ UNCHANGED plug

\* load, lines 141-149: read and parse the file; when that fails delete the
\* file and work on the default serialization
LoadRead ==
    /\ pc = "load_read"
    /\ LET parsed == read_yaml(fs, FilePath)
       IN IF parsed # Err
          THEN /\ ld' = [ld EXCEPT !.read_data = parsed]
               /\ pc' = "load_fix"
               /\ UNCHANGED <<fs, logger, out>>
          ELSE LET L == warn(Lg(logger, out), ReadFailed)
               IN /\ fs' = delete(fs, FilePath)
                  /\ ld' = [ld EXCEPT !.read_exc = read_error(fs, FilePath),
                                      !.result_config = serialize(get_default("Configuration")),
                                      !.needs_save = TRUE]
                  /\ logger' = L.logger
                  /\ out' = L.out
                  /\ pc' = "load_deser"
    /\ UNCHANGED <<ops, caller, opts, exc, config, sv, hist>>
    /\ UNCHANGED fixvars
    /\ UNCHANGED plug

\* load, lines 152-156: reconcile the parsed document
LoadFix ==
    /\ pc = "load_fix"
    /\ LET r == fix_data("Configuration", ld.read_data, <<>>)
           L == IF Len(r.log) > 0
                THEN warn_all(Lg(logger, out), <<FixedKeys, Join(r.log, ", ")>>, 1)
                ELSE Lg(logger, out)
       IN IF r.exc # ""
          THEN /\ exc' = r.exc
               /\ pc' = "raised"
               /\ logger' = Unwind(logger)
               /\ UNCHANGED <<ld, out>>
          ELSE /\ ld' = [ld EXCEPT !.result_config = MapV(r.doc),
                                   !.needs_save = Len(r.log) > 0]
               /\ logger' = L.logger
               /\ out' = L.out
               /\ pc' = "load_deser"
               /\ exc' = exc
    /\ UNCHANGED <<fs, ops, caller, opts, config, sv, hist>>
    /\ UNCHANGED fixvars
    /\ UNCHANGED plug

\* load, lines 157-171: deserialize into an instance, the default instance
\* when that fails; attach the logger and the paths; call save when needed
LoadDeser ==
    /\ pc = "load_deser"
    /\ LET made == deserialize(ld.result_config, TClass("Configuration"), FALSE)
           L == IF made = Err THEN warn(Lg(logger, out), ReadFailed) ELSE Lg(logger, out)
           needs == ld.needs_save \/ made = Err
           instance == IF made = Err THEN get_default("Configuration") ELSE made
       IN /\ ld' = [ld EXCEPT !.result_config = instance, !.needs_save = needs]
          /\ logger' = L.logger
          /\ out' = L.out
          /\ sv' = [NoSave EXCEPT !.self = instance]
          /\ pc' = IF needs THEN "save_start" ELSE "load_done"
    /\ UNCHANGED <<fs, ops, caller, opts, exc, config, hist>>
    /\ UNCHANGED fixvars
    /\ UNCHANGED plug

\* load, lines 173-175: after_load, "Config loaded", leave the contexts, return
LoadDone ==
    /\ pc = "load_done"
    /\ LET L == info(Lg(logger, out), "Config loaded")
       IN /\ logger' = exit_record(L.logger)
          /\ out' = L.out
    /\ config' = ld.result_config
    /\ pc' = "idle"
    /\ UNCHANGED <<fs, ops, caller, opts, exc, ld, sv, hist>>
    /\ UNCHANGED fixvars
    /\ UNCHANGED plug

\* config.save(print_to_console, source_to_reply), called on the loaded instance
Save(o) ==
    /\ pc = "idle"
    /\ ops < MaxOps
    /\ config # NoneV
    /\ ops' = ops + 1
    /\ caller' = "api"
    /\ opts' = o
    /\ out' = NoOutput
    /\ sv' = [NoSave EXCEPT !.self = config]
    /\ exc' = ""
    /\ pc' = "save_start"
    /\ hist' = [hist EXCEPT !.verbose0 = logger.verbose]
    /\ UNCHANGED <<fs, ld, config, logger>>
    /\ UNCHANGED fixvars
    /\ UNCHANGED plug

\* save, lines 183-187 and 217: a directory at file_path is removed; _save()
SaveStart ==
    /\ pc = "save_start"
    /\ hist' = [NoHist EXCEPT !.old_file = fs[FilePath], !.warned0 = Len(out.warned),
                              !.verbose0 = hist.verbose0]
    /\ fs' = IF fs[FilePath].kind = "dir" THEN delete(fs, FilePath) ELSE fs
    /\ pc' = "save_enter"
    /\ UNCHANGED <<ops, caller, opts, exc, ld, config, sv, logger, out>>
    /\ UNCHANGED fixvars
    /\ UNCHANGED plug

\* _save, lines 190-194: enter the reply context, clear config_temp_path,
\* serialize the instance
SaveEnter ==
    /\ pc = "save_enter"
    /\ logger' = enter_reply(logger, opts.verbose, opts.source)
    /\ fs' = clear_temp(fs)
    /\ sv' = [sv EXCEPT !.config_content = serialize(sv.self),
                        !.target = IF sv.safe_dump THEN FilePath ELSE TempPath,
                        !.to_write = IF sv.safe_dump
                                     THEN FileEntry("yaml", serialize(sv.self), "safe")
                                     ELSE Absent]
    /\ hist' = [hist EXCEPT !.safe_dumps = IF sv.safe_dump THEN @ + 1 ELSE @]
    /\ pc' = IF sv.safe_dump THEN "sw_open" ELSE "fmt_base"
    /\ UNCHANGED <<ops, caller, opts, exc, ld, config, out>>
    /\ UNCHANGED fixvars
    /\ UNCHANGED plug

\* _save, lines 201-206: the file at file_path, else the bundled template, is
\* the merge base; every top-level key of config_content is laid over it
FmtBase ==
    /\ pc = "fmt_base"
    /\ \E tmpl \in Templates :
          LET from_file == fs[FilePath].kind = "file"
              parsed == read_yaml(fs, FilePath)
              base == IF from_file
                      THEN [doc |-> parsed, style |-> fs[FilePath].style]
                      ELSE get_template(tmpl)
              missing == ~from_file /\ get_template(tmpl).style = "bare"
          IN IF base.doc = Err \/ base.doc.t # "map"
             THEN /\ exc' = IF base.doc = Err THEN "YAMLError" ELSE "TypeError"
                  /\ pc' = "raised"
                  /\ logger' = Unwind(logger)
                  /\ UNCHANGED <<sv, out, hist>>
             ELSE /\ sv' = [sv EXCEPT !.to_write =
                               FileEntry("yaml",
                                         MapV(Overlay(base.doc.m, sv.config_content.m)),
                                         base.style)]
                  /\ out' = [out EXCEPT !.console =
                                IF missing THEN Append(@, TemplateWarning) ELSE @]
                  /\ hist' = [hist EXCEPT !.template_missing = missing]
                  /\ pc' = "sw_open"
                  /\ UNCHANGED <<exc, logger>>
    /\ UNCHANGED <<fs, ops, caller, opts, ld, config>>
    /\ UNCHANGED fixvars
    /\ UNCHANGED plug

\* safe_write, lines 31-33: delete temp_file_path, open it for writing
SwOpen ==
    /\ pc = "sw_open"
    /\ fs' = [delete(fs, WriteTmp(sv.target)) EXCEPT
                 ![WriteTmp(sv.target)] = FileEntry("partial", NoneV, "")]
    /\ pc' = "sw_dump"
    /\ UNCHANGED <<ops, caller, opts, exc, ld, config, sv, logger, out, hist>>
    /\ UNCHANGED fixvars
    /\ UNCHANGED plug

\* the body of "with safe_write(...)": the YAML dump, and the file is closed
SwDump ==
    /\ pc = "sw_dump"
    /\ fs' = [fs EXCEPT ![WriteTmp(sv.target)] = sv.to_write]
    /\ pc' = "sw_replace"
    /\ UNCHANGED <<ops, caller, opts, exc, ld, config, sv, logger, out, hist>>
    /\ UNCHANGED fixvars
    /\ UNCHANGED plug

\* safe_write, line 35: os.replace(temp_file_path, target_file_path)
SwReplace ==
    /\ pc = "sw_replace"
    /\ fs' = replace(fs, WriteTmp(sv.target), sv.target)
    /\ pc' = IF sv.safe_dump THEN "safe_warn" ELSE "validate"
    /\ UNCHANGED <<ops, caller, opts, exc, ld, config, sv, logger, out, hist>>
    /\ UNCHANGED fixvars
    /\ UNCHANGED plug

\* _save, lines 209-216: the temporary file is read back and deserialized;
\* on success it replaces file_path, on failure two warnings and _save(True)
Validate ==
    /\ pc = "validate"
    /\ LET parsed == read_yaml(fs, TempPath)
           ok == parsed # Err /\ deserialize(parsed, TClass("Configuration"), FALSE) # Err
           L == warn_all(Lg(logger, out), validation_warnings, 1)
       IN IF ok
          THEN /\ fs' = replace(fs, TempPath, FilePath)
               /\ pc' = "save_exit"
               /\ hist' = [hist EXCEPT !.validations = @ + 1]
               /\ UNCHANGED <<sv, logger, out>>
          ELSE /\ logger' = L.logger
               /\ out' = L.out
               /\ sv' = [sv EXCEPT !.safe_dump = TRUE]
               /\ hist' = [hist EXCEPT !.validations = @ + 1, !.failed = TRUE]
               /\ pc' = "save_enter"
               /\ fs' = fs
    /\ UNCHANGED <<ops, caller, opts, exc, ld, config>>
    /\ UNCHANGED fixvars
    /\ UNCHANGED plug

\* _save(safe_dump=True), line 198: the warning after the safe dump
SafeWarn ==
    /\ pc = "safe_warn"
    /\ LET L == warn_all(Lg(logger, out), safe_dump_warnings, 1)
       IN /\ logger' = L.logger
          /\ out' = L.out
    /\ pc' = "save_exit"
    /\ UNCHANGED <<fs, ops, caller, opts, exc, ld, config, sv, hist>>
    /\ UNCHANGED fixvars
    /\ UNCHANGED plug

\* the reply contexts of _save are left (two of them after a safe dump) and
\* save returns to its caller
SaveExit ==
    /\ pc = "save_exit"
    /\ logger' = IF sv.safe_dump THEN exit_reply(exit_reply(logger)) ELSE exit_reply(logger)
    /\ pc' = IF caller = "load" THEN "load_done" ELSE "idle"
    /\ UNCHANGED <<fs, ops, caller, opts, exc, ld, config, sv, out, hist>>
    /\ UNCHANGED fixvars
    /\ UNCHANGED plug

Next ==
    \/ \E o \in Options : Load(o)
    \/ LoadRead
    \/ LoadFix
    \/ LoadDeser
    \/ LoadDone
    \/ \E o \in Options : Save(o)
    \/ SaveStart
    \/ SaveEnter
    \/ FmtBase
    \/ SwOpen
    \/ SwDump
    \/ SwReplace
    \/ Validate
    \/ SafeWarn
    \/ SaveExit

Spec == Init /\ [][Next]_vars

(***************************************************************************)
(* Properties of _fix_data, checked under SpecFix                          *)
(***************************************************************************)
Range(seq) == {seq[i] : i \in 1..Len(seq)}

NodeName(prefix, key) == Join(Append(prefix, key), ".")

DefaultData(cls) == serialize(get_default(cls)).m

\* the fields of cls that are primitive or container typed
PlainKeys(cls) == {key \in FieldKeys(cls) : FieldType(cls, key).k # "class"}

NestedKeys(cls) == FieldKeys(cls) \ PlainKeys(cls)

\* the raw value of key is there and deserialize rejects it
Rejected(cls, data, key) ==
    /\ key \in PlainKeys(cls) \cap DOMAIN data.m
    /\ deserialize(data.m[key], FieldType(cls, key), TRUE) = Err

RECURSIVE Levels(_, _, _, _)
\* Every (schema class, raw mapping, reconciled mapping, path prefix) that a
\* call of _fix_data which returned has worked on: the top level and, for each
\* nested-schema field present in the raw mapping, the levels below it.
Levels(cls, data, made, prefix) ==
    {[cls |-> cls, data |-> data, out |-> made, prefix |-> prefix]}
    \cup UNION {Levels(FieldType(cls, key).cls, data.m[key], made[key].m, Append(prefix, key)) :
                   key \in {j \in NestedKeys(cls) : j \in DOMAIN data.m /\ j \in DOMAIN made}}

FixedLevels == Levels("Configuration", raw, fixed.doc, <<>>)

Returned == fpc = "fixed" /\ fixed.exc = ""

\* C3: a present primitive or container field whose raw value fails coercion
\* and that has a default is recorded in the RepairLog and reconciled to the
\* default value (at most passed through the type's constructor).
C3_DefaultSubstituted ==
    Returned =>
        \A lv \in FixedLevels : \A key \in FieldKeys(lv.cls) :
            (Rejected(lv.cls, lv.data, key) /\ key \in DOMAIN DefaultData(lv.cls)) =>
                /\ NodeName(lv.prefix, key) \in Range(fixed.log)
                /\ key \in DOMAIN lv.out
                /\ lv.out[key] \in {DefaultData(lv.cls)[key],
                                    Construct(FieldType(lv.cls, key), DefaultData(lv.cls)[key])}

\* C4: reconciling the document returned by a first reconciliation returns the
\* same document and an empty RepairLog.
C4_Idempotent ==
    fpc = "refixed" =>
        /\ refixed.exc = ""
        /\ refixed.log = <<>>
        /\ refixed.doc = fixed.doc

\* the serialized form of value is accepted by the declared type ty
Conforms(value, ty) == deserialize(serialize(value), ty, FALSE) # Err

\* C5: a present field whose value cannot be coerced and that has no default is
\* absent from the reconciled output with its path in the RepairLog, and no
\* schema field of the output holds a value that does not conform to its type.
C5_NoWrongTypedValue ==
    Returned =>
        \A lv \in FixedLevels :
            /\ \A key \in FieldKeys(lv.cls) :
                  (Rejected(lv.cls, lv.data, key) /\ key \notin DOMAIN DefaultData(lv.cls)) =>
                      /\ key \notin DOMAIN lv.out
                      /\ NodeName(lv.prefix, key) \in Range(fixed.log)
            /\ \A key \in FieldKeys(lv.cls) \cap DOMAIN lv.out :
                  Conforms(lv.out[key], FieldType(lv.cls, key))

C5_Witness ==
    /\ Returned
    /\ raw.t = "map"
    /\ Rejected("Configuration", raw, "c")
    /\ Rejected("Configuration", raw, "a")
    /\ "c" \in Range(fixed.log)

\* C6: at every level the reconciler reaches, a missing field with a default is
\* included with exactly the default value and its path recorded; a missing field
\* without a default stays absent and unrecorded; no default is substituted
\* without its path being recorded.
C6_MissingDefaulted ==
    Returned =>
        \A lv \in FixedLevels : \A key \in FieldKeys(lv.cls) :
            /\ (key \notin DOMAIN lv.data.m /\ key \in DOMAIN DefaultData(lv.cls)) =>
                  /\ key \in DOMAIN lv.out
                  /\ lv.out[key] = DefaultData(lv.cls)[key]
                  /\ NodeName(lv.prefix, key) \in Range(fixed.log)
            /\ (key \notin DOMAIN lv.data.m /\ key \notin DOMAIN DefaultData(lv.cls)) =>
                  /\ key \notin DOMAIN lv.out
                  /\ NodeName(lv.prefix, key) \notin Range(fixed.log)
            /\ Rejected(lv.cls, lv.data, key) =>
                  NodeName(lv.prefix, key) \in Range(fixed.log)

C6_Witness ==
    /\ Returned
    /\ raw.t = "map"
    /\ "c" \notin DOMAIN raw.m
    /\ "sub" \in DOMAIN raw.m
    /\ raw.m["sub"].t = "map"
    /\ "d" \notin DOMAIN raw.m["sub"].m
    /\ "sub.d" \in Range(fixed.log)
    /\ fixed.doc["sub"].m["d"] = MapV("z" :> IntV(1))
    /\ "c" \notin DOMAIN fixed.doc

\* the reconciled value of key, or AbsentV
FieldOut(result, key) == IF key \in DOMAIN result.doc THEN result.doc[key] ELSE AbsentV

\* raw with every schema field but key removed
OnlyField(data, key) ==
    MapV(Restrict(data.m, {j \in DOMAIN data.m : j = key \/ j \notin FieldKeys("Configuration")}))

\* C7: for every raw mapping _fix_data returns a (document, RepairLog) pair and
\* never raises, and the reconciled value of a field is what it would be with
\* every sibling field of the raw mapping removed.
C7_FieldIsolation ==
    (fpc = "fixed" /\ raw.t = "map") =>
        /\ fixed.exc = ""
        /\ \A key \in FieldKeys("Configuration") \cap DOMAIN raw.m :
              FieldOut(fixed, key)
                  = FieldOut(fix_data("Configuration", OnlyField(raw, key), <<>>), key)

RECURSIVE ExpectedPaths(_, _, _, _)
\* The repairs of a raw mapping, in schema-declaration order with the repairs
\* inside a nested schema at the place of the nested field, each as the
\* '.'-join of its ancestors' names and its own.
ExpectedPaths(cls, data, prefix, i) ==
    IF i > Len(Annotations(cls)) THEN <<>>
    ELSE LET key == Annotations(cls)[i].key
             here ==
                IF key \in NestedKeys(cls) /\ key \in DOMAIN data.m
                THEN ExpectedPaths(FieldType(cls, key).cls, data.m[key], Append(prefix, key), 1)
                ELSE IF \/ Rejected(cls, data, key)
                        \/ (key \notin DOMAIN data.m /\ key \in DOMAIN DefaultData(cls))
                     THEN <<NodeName(prefix, key)>>
                ELSE <<>>
         IN here \o ExpectedPaths(cls, data, prefix, i + 1)

\* C8: the RepairLog is the full dotted paths of the repairs in schema-declaration
\* order, nested repairs merged at the position of the nested field, and a nested
\* field present in the raw mapping is not itself recorded.
C8_DottedPaths ==
    Returned =>
        /\ fixed.log = ExpectedPaths("Configuration", raw, <<>>, 1)
        /\ \A lv \in FixedLevels : \A key \in NestedKeys(lv.cls) \cap DOMAIN lv.data.m :
              NodeName(lv.prefix, key) \notin Range(fixed.log)

C8_Witness ==
    /\ Returned
    /\ raw.t = "map"
    /\ "sub" \in DOMAIN raw.m
    /\ "x" \in DOMAIN raw.m["sub"].m
    /\ raw.m["sub"].m["x"] = StrV("oops")
    /\ "d" \in DOMAIN raw.m["sub"].m
    /\ raw.m["sub"].m["d"] = MkMap("z" :> StrV("oops"))
    /\ "a" \in DOMAIN raw.m
    /\ "c" \notin DOMAIN raw.m
    /\ "l" \notin DOMAIN raw.m
    /\ fixed.log = <<"b", "sub.x", "sub.d.z", "l", "subs">>

(***************************************************************************)
(* Properties of load and save, checked under Spec                         *)
(***************************************************************************)
\* C1: load never raises: whatever the configuration file holds, no exception
\* leaves load.
C1_LoadNeverRaises == ~(pc = "raised" /\ caller = "load")

InSave ==
    pc \in {"save_enter", "fmt_base", "sw_open", "sw_dump", "sw_replace", "validate",
            "safe_warn", "save_exit"}

\* a complete file whose text parses to a mapping
WellFormed(entry) == entry.kind = "file" /\ entry.syntax = "yaml" /\ entry.doc.t = "map"

\* a complete file that deserializes into the schema and holds every value of
\* the serialization of the instance being saved
NewValid(entry) ==
    /\ WellFormed(entry)
    /\ deserialize(entry.doc, TClass("Configuration"), FALSE) # Err
    /\ \A key \in DOMAIN serialize(sv.self).m :
          key \in DOMAIN entry.doc.m /\ entry.doc.m[key] = serialize(sv.self).m[key]

\* C2: when file_path held a well-formed file as save began, then at every step
\* of save (so after a kill at any step) file_path holds that old file unchanged
\* or a complete new valid file, never a partial write and never nothing.
C2_CrashAtomic ==
    (InSave /\ WellFormed(hist.old_file)) =>
        (fs[FilePath] = hist.old_file \/ NewValid(fs[FilePath]))

C2_Witness ==
    /\ pc = "sw_dump"
    /\ sv.safe_dump
    /\ WellFormed(hist.old_file)
    /\ fs[FilePath] = hist.old_file
    /\ fs[WriteTmp(FilePath)].syntax = "partial"

\* C9: a save whose validation failed has, when it ends, validated once and
\* safe-dumped once, file_path holds the plain safe dump of the instance's
\* serialization and nothing is left at config_temp_path; a save whose
\* validation succeeded has not safe-dumped, file_path holds the merged
\* formatted document and nothing is left at config_temp_path.
C9_SafeDumpFallback ==
    pc = "save_exit" =>
        /\ hist.validations = 1
        /\ fs[TempPath] = Absent
        /\ hist.failed =>
              /\ hist.safe_dumps = 1
              /\ fs[FilePath] = FileEntry("yaml", serialize(sv.self), "safe")
        /\ ~hist.failed =>
              /\ hist.safe_dumps = 0
              /\ fs[FilePath] = sv.to_write
              /\ NewValid(fs[FilePath])
              /\ fs[FilePath].style = IF hist.old_file.kind = "file" THEN hist.old_file.style
                                      ELSE IF hist.template_missing THEN "bare"
                                      ELSE "template"

C9_Witness ==
    /\ pc = "save_exit"
    /\ hist.failed
    /\ hist.old_file.kind = "file"
    /\ hist.old_file.style = "user"
    /\ fs[FilePath].style = "safe"

\* the warnings passed to the configuration's logger since save began
SaveWarned == SubSeq(out.warned, hist.warned0 + 1, Len(out.warned))

\* C10 as stated: a save whose validation failed has logged exactly two
\* warnings, a save whose validation succeeded has logged none.
C10_TwoWarnings ==
    pc = "save_exit" =>
        /\ hist.failed => Len(SaveWarned) = 2
        /\ ~hist.failed => (SaveWarned = <<>> /\ TemplateWarning \notin Range(out.console))

\* C10, amended: a save whose validation failed has passed exactly three
\* warnings to the configuration's logger, two before the fallback and one
\* after the safe dump; a save whose validation succeeded has passed it none,
\* and the module logger warns of a missing template only when save found no
\* file at file_path.
C10_ThreeWarnings ==
    pc = "save_exit" =>
        /\ hist.failed =>
              /\ SaveWarned = <<ValidationFailed, ContactMaintainer, SavedWithoutFormat>>
              /\ TemplateWarning \notin Range(out.console)
        /\ ~hist.failed =>
              /\ SaveWarned = <<>>
              /\ TemplateWarning \in Range(out.console) => hist.old_file.kind # "file"

C10_Witness ==
    /\ pc = "save_exit"
    /\ hist.failed
    /\ opts.verbose = "True"
    /\ <<"warning", SavedWithoutFormat>> \in Range(out.console)

(***************************************************************************)
(* C11.  The load that could not read or parse its file.                   *)
(***************************************************************************)
\* the running or just returned load caught an exception while reading
ReadFailure == caller = "load" /\ ld.read_exc # ""

\* load has returned and nothing was called since
LoadReturned == pc = "idle" /\ caller = "load"

\* C11: when load cannot read or parse the file, it logs the warning, no
\* exception leaves it, its save starts on a config path that holds nothing
\* any more, the post-load hook is reached only after that save has validated
\* what it wrote, and on return the instance is the default one and the
\* config path holds a complete, newly written file that deserializes.
C11_CorruptFileRecovery ==
    ReadFailure =>
        /\ pc # "raised"
        /\ ReadFailed \in Range(out.warned)
        /\ ld.needs_save
        /\ pc \notin {"load_read", "load_fix", "load_deser", "save_start"} =>
               hist.old_file = Absent
        /\ pc = "load_done" \/ LoadReturned =>
               /\ hist.validations = 1
               /\ ld.result_config = get_default("Configuration")
               /\ WellFormed(fs[FilePath])
               /\ fs[FilePath].style # "user"
               /\ deserialize(fs[FilePath].doc, TClass("Configuration"), FALSE)
                      = get_default("Configuration")
        /\ LoadReturned => config = get_default("Configuration")

\* a load that found unparsable text has returned
C11_Witness ==
    /\ LoadReturned
    /\ ld.read_exc = "YAMLError"
    /\ config = get_default("Configuration")
    /\ fs[FilePath].kind = "file"

(***************************************************************************)
(* C14.  When load calls save.                                             *)
(***************************************************************************)
\* the steps of save
SavePcs ==
    {"save_start", "save_enter", "fmt_base", "sw_open", "sw_dump", "sw_replace",
     "validate", "safe_warn", "save_exit"}

\* load is past the place where it calls save or not
LoadPastDecision == caller = "load" /\ pc \notin {"load_read", "load_fix", "load_deser"}

\* the save of the running or just returned load has begun
SaveInvoked == caller = "load" /\ (pc \in SavePcs \/ hist.validations > 0)

\* what the reconciler makes of the document load has read
Reconciled == fix_data("Configuration", ld.read_data, <<>>)

\* the document a running load reads, Err when reading fails
LoadedDoc ==
    IF pc = "load_read" THEN read_yaml(fs, FilePath)
    ELSE IF ld.read_exc = "" THEN ld.read_data ELSE Err

\* a load is running, its file parses and the reconciler returns an empty
\* RepairLog for it
NothingToRepair ==
    /\ caller = "load"
    /\ pc \notin {"idle", "raised"}
    /\ LoadedDoc # Err
    /\ LET r == fix_data("Configuration", LoadedDoc, <<>>)
       IN r.exc = "" /\ r.log = <<>>

\* reading failed, or the RepairLog is not empty, or the reconciled mapping
\* does not deserialize
SaveCause ==
    \/ ld.read_exc # ""
    \/ /\ Reconciled.exc = ""
       /\ \/ Reconciled.log # <<>>
          \/ deserialize(MapV(Reconciled.doc), TClass("Configuration"), FALSE) = Err

\* load calls save exactly when one of the three causes happened
SaveIffCause == LoadPastDecision => (SaveInvoked <=> SaveCause)

\* no step of a load whose file parsed and needed no repair changes what the
\* config path holds
NoTouch == NothingToRepair => fs'[FilePath] = fs[FilePath]

\* C14: load invokes save if and only if reading failed, the RepairLog was
\* not empty or the deserialization failed; and a load whose file parses and
\* needs no repair writes, deletes and renames nothing.
C14_SaveIffNeeded == []SaveIffCause /\ [][NoTouch]_vars

(***************************************************************************)
(* C13.  The contexts of the logger: record_context around load,           *)
(* reply_to_source_context around _save, entered again by _save(True).     *)
(***************************************************************************)
\* the call of load or save has ended, by a return or by an exception, and
\* with it the outermost context
OutermostExited == ops > 0 /\ pc \in {"idle", "raised"}

\* load is between the return of save (if it called save) and the exit of
\* its own record_context
OuterStillActive == caller = "load" /\ pc = "load_done"

\* C13: once the outermost context has exited the verbosity of the logger is
\* what it was before the outermost entry; while the context of load is
\* still active after the context of save has exited, the verbosity and the
\* reply target that load asked for are in force.
C13_ScopedOverride ==
    /\ OutermostExited => logger.verbose = hist.verbose0
    /\ OuterStillActive => logger.verbose = opts.verbose /\ logger.src = opts.source

(***************************************************************************)
(* SpecReload: the plugin module.  Importing the module loads the          *)
(* configuration; on_load then replays the log buffer of that load; the    *)
(* reload subcommand stores its source in the running module's config and  *)
(* has the plugin loaded again.                                            *)
(***************************************************************************)
\* the kinds of command source that can run the reload subcommand
Sources == {"player", "console", "plugin"}

\* isinstance(reload_source, PlayerCommandSource)
IsPlayer(source) == source = "player"

\* reload_reply replying to every kind of source
reload_reply_any(sent, source, msg) ==
    IF source # "None" THEN Append(sent, <<source, msg>>) ELSE sent

\* reload_reply of on_load: only a player is replied to
reload_reply(sent, source, msg) ==
    IF source # "None" /\ IsPlayer(source) THEN Append(sent, <<source, msg>>) ELSE sent

\* the arguments with which the module loads its configuration: no source
\* to reply to is known while the module is imported
ImportOptions == {o \in Options : o.source = "None"}

Reloaded == "loading.reloaded"

ReloadingFailed == "loading.reloading_failed"

\* the line that names the exception of the failed import
ExcLine(e) == "<" \o e \o "> "

InitReload ==
    /\ raw = NoneV
    /\ fixed = NoResult
    /\ refixed = NoResult
    /\ fpc = "off"
    /\ InitIO
    /\ plug = [NoPlug EXCEPT !.phase = "unloaded"]

\* the server loads the plugin for the first time: the import of the module
\* calls Configuration.load
PluginLoad ==
    /\ plug.phase = "unloaded"
    /\ \E o \in ImportOptions : CallLoad(o)
    /\ plug' = [plug EXCEPT !.phase = "importing"]

\* reload_self(source): config.set_reloader(source), then the plugin is
\* reloaded, which imports the new module
ReloadSelf(source) ==
    /\ plug.phase = "loaded"
    /\ \E o \in ImportOptions : CallLoad(o)
    /\ plug' = [plug EXCEPT !.phase = "importing", !.prev = TRUE,
                            !.prev_reloader = source, !.trigger = source,
                            !.reload_source = "None", !.delivered = <<>>]

\* what the operator can put at the config path before running the reload
\* subcommand: unparsable text, an empty document, a document that needs
\* repairs, a complete one
EditedFiles ==
    {FileEntry("garbage", NoneV, "user"),
     FileEntry("yaml", NoneV, "user"),
     FileEntry("yaml",
               MkMap("a" :> StrV("oops") @@ "b" :> StrV("y") @@ "c" :> IntV(1)
                     @@ "sub" :> MkMap("x" :> StrV("oops"))
                     @@ "l" :> ListV(<<IntV(1)>>) @@ "subs" :> ListV(<<>>)),
               "user"),
     FileEntry("yaml",
               MkMap("a" :> IntV(1) @@ "b" :> StrV("y") @@ "c" :> IntV(1)
                     @@ "sub" :> MkMap("x" :> IntV(1) @@ "d" :> MkMap("z" :> IntV(1)))
                     @@ "l" :> ListV(<<IntV(1)>>) @@ "subs" :> ListV(<<>>)),
               "user")}

\* the operator edits the configuration file while the plugin is loaded
EditFile ==
    /\ plug.phase = "loaded"
    /\ pc = "idle"
    /\ \E entry \in EditedFiles : fs' = [fs EXCEPT ![FilePath] = entry]
    /\ UNCHANGED <<pc, ops, caller, opts, exc, ld, config, sv, logger, out, hist, plug>>
    /\ UNCHANGED fixvars

\* on_load, lines 18-41: reload_source is read from the previous module's
\* config; a failed import is reported and raised again
OnLoad ==
    /\ plug.phase = "importing"
    /\ pc \in {"idle", "raised"}
    /\ LET source == IF plug.prev THEN plug.prev_reloader ELSE "None"
       IN IF pc = "raised"
          THEN plug' = [plug EXCEPT
                           !.reload_source = source,
                           !.delivered = reload_reply(
                               reload_reply(<<>>, source, ReloadingFailed),
                               source, ExcLine(exc)),
                           !.phase = "failed"]
          ELSE plug' = [plug EXCEPT !.reload_source = source, !.phase = "replaying"]
    /\ UNCHANGED iovars
    /\ UNCHANGED fixvars

\* on_load, lines 43-46: the first line of the log buffer is taken out and
\* handed to reload_reply
OnLoadReplay ==
    /\ plug.phase = "replaying"
    /\ Len(logger.log_record) > 0
    /\ plug' = [plug EXCEPT !.delivered =
                    reload_reply(@, plug.reload_source, Head(logger.log_record))]
    /\ logger' = [logger EXCEPT !.log_record = Tail(@)]
    /\ UNCHANGED <<fs, pc, ops, caller, opts, exc, ld, config, sv, out, hist>>
    /\ UNCHANGED fixvars

\* on_load, lines 44-45 and 48-50: the buffer is empty; help message and
\* commands are registered and the reload is reported
OnLoadDone ==
    /\ plug.phase = "replaying"
    /\ Len(logger.log_record) = 0
    /\ plug' = [plug EXCEPT !.delivered = reload_reply(@, plug.reload_source, Reloaded),
                            !.phase = "loaded"]
    /\ UNCHANGED iovars
    /\ UNCHANGED fixvars

NextReload ==
    \/ PluginLoad
    \/ EditFile
    \/ \E source \in Sources : ReloadSelf(source)
    \/ LoadRead
    \/ LoadFix
    \/ LoadDeser
    \/ LoadDone
    \/ SaveStart
    \/ SaveEnter
    \/ FmtBase
    \/ SwOpen
    \/ SwDump
    \/ SwReplace
    \/ Validate
    \/ SafeWarn
    \/ SaveExit
    \/ OnLoad
    \/ OnLoadReplay
    \/ OnLoadDone

SpecReload == InitReload /\ [][NextReload]_vars

(***************************************************************************)
(* C12.  The replay of the log buffer after the reload subcommand.         *)
(***************************************************************************)
\* the lines logged through the logger of the configuration during the load:
\* its warnings, then "Config loaded"
BufferedLines == Append(out.warned, "Config loaded")

\* the lines of a sequence, each as a reply to the source
RepliesTo(source, lines) == [i \in 1..Len(lines) |-> <<source, lines[i]>>]

IsPrefix(short, long) ==
    Len(short) <= Len(long) /\ SubSeq(long, 1, Len(short)) = short

\* on_load has returned after a reload that the subcommand triggered
ReloadedBySource == plug.phase = "loaded" /\ plug.trigger # "None"

\* the buffer is emptied by on_load, and reload_source is the source that
\* ran the subcommand, None when there is no previous module
BufferAndIdentity ==
    /\ plug.phase = "loaded" => logger.log_record = <<>>
    /\ plug.phase \in {"replaying", "loaded", "failed"} =>
           /\ plug.reload_source = plug.trigger
           /\ plug.reload_source = IF plug.prev THEN plug.prev_reloader ELSE "None"
           /\ \A i \in 1..Len(plug.delivered) : plug.delivered[i][1] = plug.trigger

\* C12 as stated: after a reload triggered by a source through the reload
\* subcommand, on_load has replied every buffered line of the load to that
\* source, in the order logged, whatever kind of source it is; the buffer is
\* empty after on_load; reload_source comes from the previous config only.
C12_ReloadReplay ==
    /\ ReloadedBySource =>
           IsPrefix(RepliesTo(plug.trigger, BufferedLines), plug.delivered)
    /\ BufferAndIdentity

\* C12, amended: the buffered lines are replied, in order, when the source is
\* a player; to any other kind of source nothing is replied and the lines
\* are dropped; while the replay runs, what was replied and what is left in
\* the buffer make up the buffered lines in order.
C12_ReplayToPlayer ==
    /\ ReloadedBySource =>
           IF IsPlayer(plug.trigger)
           THEN plug.delivered
                   = RepliesTo(plug.trigger, Append(BufferedLines, Reloaded))
           ELSE plug.delivered = <<>>
    /\ (plug.phase = "replaying" /\ IsPlayer(plug.trigger)) =>
           plug.delivered \o RepliesTo(plug.trigger, logger.log_record)
               = RepliesTo(plug.trigger, BufferedLines)
    /\ BufferAndIdentity

\* a reload by a player has replayed warnings; one by the console has ended
C12_Witness ==
    /\ ReloadedBySource
    /\ IsPlayer(plug.trigger)
    /\ Len(out.warned) > 0
    /\ Len(plug.delivered) = Len(out.warned) + 2

====
